---- MODULE Spec2Model ----
(***************************************************************************)
(* Transaction Management API (src/app.py): the TradeManager record store  *)
(* (one JSON file per trade under TRADES_DIR) and the Flask routes that    *)
(* expose it.  Every route handler is one atomic action; its result is a   *)
(* pure operator of the store, the request, the clock and the environment  *)
(* (the uuid drawn, the outcome of the file write).                        *)
(***************************************************************************)
EXTENDS Integers, Sequences, FiniteSets, TLC

VARIABLES
    files,    \* TRADES_DIR: trade id -> the unit "<id>.json" (absent, corrupt, or a record)
    now,      \* the wall clock read by datetime.now()
    issued,   \* the identifiers uuid.uuid4() has returned so far
    req,      \* the request handled last
    resp,     \* the response it was answered with
    created,  \* history: the trade_id of every Create answered 201 so far
    deleted,  \* history: the ids deleted with 200, no Create request since
    net,      \* history: Creates answered 201 minus Deletes answered 200 (SpecCount only)
    script,   \* webhook receiver: does DEPLOYMENT_SCRIPT exist
    hreq,     \* webhook receiver: the request handled last
    hresp,    \* webhook receiver: the response it was answered with
    started,  \* webhook receiver: how often that request started the deployment script
    port_env,     \* startup script: the PORT entry of the environment
    pc,           \* startup script: where it is (start, gunicorn, exited)
    exit_status,  \* startup script: the status it exited with
    launched,     \* startup script: has it run gunicorn
    threads,      \* threaded API: per thread, the request it handles and where it is in it
    tunnel,       \* NgrokManager.tunnel
    tunnel_url,   \* NgrokManager.tunnel_url
    connected,    \* ngrok: the tunnels opened through the manager that are connected
    nopened,      \* ngrok: how many tunnels have been opened so far
    ncall         \* NgrokManager: the call made last and how it ended

\* the state of the deployment receiver (src/webhook-receiver.py), a program of its own
hookvars == <<script, hreq, hresp, started>>
\* the state of the programs other than the API
\* the state of the startup script (src/railway_start.py)
bootvars == <<port_env, pc, exit_status, launched>>
\* the threads of the API when it serves requests side by side
racevars == <<threads>>
\* the state of the tunnel manager (src/ngrok_manager.py) and of ngrok
ngrokvars == <<tunnel, tunnel_url, connected, nopened, ncall>>
outside == <<hookvars, bootvars, racevars, ngrokvars>>

vars == <<files, now, issued, req, resp, created, deleted, net, outside>>

(***************************************************************************)
(* Bounds                                                                  *)
(***************************************************************************)
\* how many identifiers uuid4 can hand out
NumUUIDs == 2
\* the clock runs 0..MaxClock
MaxClock == 1
\* SpecCount follows the runs in which net stays within -MaxNet..MaxNet
MaxNet == 2

\* the identifiers uuid4 hands out, in the order it does
UUIDPool == <<"uuid-1", "uuid-2", "uuid-3", "uuid-4">>
UUIDs == {UUIDPool[i] : i \in 1..NumUUIDs}

\* A body is free to carry a trade_id that is not a string.  The JSON literal true is
\* written here as a string of its own, apart from every string a client can send.
JsonTrue == "<true>"
\* f"{trade_id}": Python's text for a value (the text of True is "True")
str(v) == IF v = JsonTrue THEN "True" ELSE v

\* every name a unit of TRADES_DIR can have
AllIds == {UUIDPool[i] : i \in 1..Len(UUIDPool)} \cup {str(JsonTrue)}

(***************************************************************************)
(* JSON values.  A request body either is not JSON at all, is unparseable, *)
(* or parses to a value; a value is an object (a function from field names *)
(* to values) or something else.                                           *)
(***************************************************************************)
JNull == [t |-> "null"]
JNumber(n) == [t |-> "number", n |-> n]
JArray(elems) == [t |-> "array", elems |-> elems]
JObject(o) == [t |-> "object", o |-> o]

\* Python truthiness of a parsed value (None, 0, [], {} are falsy)
Truthy(v) ==
    CASE v.t = "null" -> FALSE
      [] v.t = "number" -> v.n # 0
      [] v.t = "array" -> Len(v.elems) > 0
      [] v.t = "object" -> DOMAIN v.o # {}

\* Python `field in value`: a key of a dict, an element of a list
Contains(v, field) ==
    CASE v.t = "object" -> field \in DOMAIN v.o
      [] v.t = "array" -> \E i \in 1..Len(v.elems) : v.elems[i] = field
      [] OTHER -> FALSE

\* d[field] = value on a dict
SetField(d, field, value) ==
    [g \in DOMAIN d \cup {field} |-> IF g = field THEN value ELSE d[g]]

Restrict(d, S) == [g \in S |-> d[g]]

\* datetime.now().isoformat() at clock value t
isoformat(t) == "T" \o ToString(t)

(***************************************************************************)
(* The units of TRADES_DIR                                                 *)
(***************************************************************************)
NoFile == [kind |-> "absent"]
Corrupt == [kind |-> "corrupt"]
Unit(rec) == [kind |-> "json", data |-> rec]

EmptyDir == [i \in AllIds |-> NoFile]
exists(fs, trade_id) == fs[trade_id] # NoFile
listdir(fs) == {i \in AllIds : exists(fs, i)}

(***************************************************************************)
(* TradeManager.  An operation either returns or raises; `raised` names    *)
(* the exception class ("" when it returned).                              *)
(***************************************************************************)
\* The outcome of open(file_path, 'w') + json.dump: the write goes through, open
\* fails before the file is touched, or the file is truncated by open and the
\* dump/flush fails (disk full), leaving an unparseable unit behind.
WriteOutcomes == {"ok", "open_fails", "dump_fails"}

\* mutant: the save merges the record into the one the unit holds
save_trade_merging(fs, trade_data, uuid, t, io) ==
    LET given == IF "trade_id" \in DOMAIN trade_data THEN trade_data["trade_id"] ELSE ""
        trade_id == IF given = "" THEN uuid ELSE given
        d1 == IF given = "" THEN SetField(trade_data, "trade_id", trade_id) ELSE trade_data
        d2 == IF "timestamp" \notin DOMAIN d1
              THEN SetField(d1, "timestamp", isoformat(t))
              ELSE d1
        file_path == str(trade_id)
        old == IF fs[file_path].kind = "json" THEN fs[file_path].data ELSE d2
        merged == [g \in DOMAIN old \cup DOMAIN d2 |-> IF g \in DOMAIN d2 THEN d2[g] ELSE old[g]]
    IN  CASE io = "ok" ->
               [raised |-> "", trade_id |-> trade_id, trade_data |-> d2,
                uuid_used |-> (given = ""),
                files |-> [fs EXCEPT ![file_path] = Unit(merged)]]
          [] io = "open_fails" ->
               [raised |-> "OSError", trade_id |-> trade_id, trade_data |-> d2,
                uuid_used |-> (given = ""), files |-> fs]
          [] io = "dump_fails" ->
               [raised |-> "OSError", trade_id |-> trade_id, trade_data |-> d2,
                uuid_used |-> (given = ""),
                files |-> [fs EXCEPT ![file_path] = Corrupt]]

save_trade(fs, trade_data, uuid, t, io) ==
    LET given == IF "trade_id" \in DOMAIN trade_data THEN trade_data["trade_id"] ELSE ""
        trade_id == IF given = "" THEN uuid ELSE given
        d1 == IF given = "" THEN SetField(trade_data, "trade_id", trade_id) ELSE trade_data
        d2 == IF "timestamp" \notin DOMAIN d1
              THEN SetField(d1, "timestamp", isoformat(t))
              ELSE d1
        file_path == str(trade_id)
    IN  CASE io = "ok" ->
               [raised |-> "", trade_id |-> trade_id, trade_data |-> d2,
                uuid_used |-> (given = ""),
                files |-> [fs EXCEPT ![file_path] = Unit(d2)]]
          [] io = "open_fails" ->
               [raised |-> "OSError", trade_id |-> trade_id, trade_data |-> d2,
                uuid_used |-> (given = ""), files |-> fs]
          [] io = "dump_fails" ->
               [raised |-> "OSError", trade_id |-> trade_id, trade_data |-> d2,
                uuid_used |-> (given = ""),
                files |-> [fs EXCEPT ![file_path] = Corrupt]]

\* None is the "not found" sentinel
None == [t |-> "null"]

\* mutant: a unit that does not parse is taken for a missing one
get_trade_swallowing_errors(fs, trade_id) ==
    IF exists(fs, trade_id) /\ fs[trade_id].kind = "json"
    THEN [raised |-> "", value |-> JObject(fs[trade_id].data)]
    ELSE [raised |-> "", value |-> None]

TradeManager_get_trade(fs, trade_id) ==
    IF exists(fs, trade_id)
    THEN IF fs[trade_id].kind = "json"
         THEN [raised |-> "", value |-> JObject(fs[trade_id].data)]
         ELSE [raised |-> "JSONDecodeError", value |-> None]
    ELSE [raised |-> "", value |-> None]

\* `order` is the order in which os.listdir hands out the file names
TradeManager_get_all_trades(fs, order) ==
    IF \E i \in 1..Len(order) : fs[order[i]].kind # "json"
    THEN [raised |-> "JSONDecodeError", trades |-> <<>>]
    ELSE [raised |-> "", trades |-> [i \in 1..Len(order) |-> fs[order[i]].data]]

\* the orders os.listdir may produce: every arrangement of the names present
Orders(fs) ==
    LET S == listdir(fs)
    IN  {o \in [1..Cardinality(S) -> S] : \A i, j \in 1..Cardinality(S) : i # j => o[i] # o[j]}

(***************************************************************************)
(* The HTTP gateway                                                        *)
(***************************************************************************)
required_fields == <<"symbol", "quantity", "price", "side">>

\* request bodies: no JSON body at all, text that does not parse, or a parsed value
NoBody == [kind |-> "absent"]
Malformed == [kind |-> "malformed"]
Json(v) == [kind |-> "json", val |-> v]

\* request.get_json().  Unparseable text makes it raise werkzeug's BadRequest (an
\* HTTPException, not a json.JSONDecodeError).  With no JSON body it returns None in
\* older Flask releases (`silent_none`) and raises in newer ones.
get_json(body, silent_none) ==
    CASE body.kind = "json" -> [raised |-> "", value |-> body.val]
      [] body.kind = "malformed" -> [raised |-> "BadRequest", value |-> None]
      [] body.kind = "absent" ->
            IF silent_none THEN [raised |-> "", value |-> None]
            ELSE [raised |-> "UnsupportedMediaType", value |-> None]

\* the response envelopes
InternalServerError ==
    [status |-> 500, error |-> "Internal server error"]
InvalidJsonFormat ==
    [status |-> 400, error |-> "Invalid JSON format"]
NoJsonData ==
    [status |-> 400, error |-> "No JSON data provided"]
TradeNotFound ==
    [status |-> 404, error |-> "Trade not found"]

\* the except clauses shared by the handlers that parse a body
except_json(raised) ==
    IF raised = "JSONDecodeError" THEN InvalidJsonFormat ELSE InternalServerError

\* mutant: the create stores the body before it looks for the required fields
create_trade_saving_first(fs, body, silent_none, uuid, t, io) ==
    LET j == get_json(body, silent_none)
        trade_data == j.value
        missing_fields == SelectSeq(required_fields, LAMBDA f : ~Contains(trade_data, f))
        saved == save_trade(fs, trade_data.o, uuid, t, io)
        quiet(r) == [resp |-> r, files |-> fs, uuid_used |-> FALSE, io |-> "none"]
    IN  IF j.raised # "" THEN quiet(except_json(j.raised))
        ELSE IF ~Truthy(trade_data) THEN quiet(NoJsonData)
        ELSE IF trade_data.t # "object" THEN quiet(except_json("TypeError"))
        ELSE IF saved.raised # ""
        THEN [resp |-> except_json(saved.raised), files |-> saved.files,
              uuid_used |-> saved.uuid_used, io |-> io]
        ELSE IF missing_fields # <<>>
        THEN [resp |-> [status |-> 400, error |-> "Missing required fields",
                        missing_fields |-> missing_fields,
                        required_fields |-> required_fields],
              files |-> saved.files, uuid_used |-> saved.uuid_used, io |-> io]
        ELSE [resp |-> [status |-> 201, message |-> "Trade created successfully",
                        trade_id |-> saved.trade_id, trade_data |-> saved.trade_data],
              files |-> saved.files, uuid_used |-> saved.uuid_used, io |-> io]

create_trade(fs, body, silent_none, uuid, t, io) ==
    LET j == get_json(body, silent_none)
        trade_data == j.value
        missing_fields == SelectSeq(required_fields, LAMBDA f : ~Contains(trade_data, f))
        saved == save_trade(fs, trade_data.o, uuid, t, io)
        quiet(r) == [resp |-> r, files |-> fs, uuid_used |-> FALSE, io |-> "none"]
    IN  IF j.raised # "" THEN quiet(except_json(j.raised))
        ELSE IF ~Truthy(trade_data) THEN quiet(NoJsonData)
        ELSE IF trade_data.t = "number" THEN quiet(except_json("TypeError"))
        ELSE IF missing_fields # <<>>
        THEN quiet([status |-> 400, error |-> "Missing required fields",
                    missing_fields |-> missing_fields,
                    required_fields |-> required_fields])
        ELSE IF trade_data.t # "object" THEN quiet(except_json("AttributeError"))
        ELSE IF saved.raised # ""
        THEN [resp |-> except_json(saved.raised), files |-> saved.files,
              uuid_used |-> saved.uuid_used, io |-> io]
        ELSE [resp |-> [status |-> 201, message |-> "Trade created successfully",
                        trade_id |-> saved.trade_id, trade_data |-> saved.trade_data],
              files |-> saved.files, uuid_used |-> saved.uuid_used, io |-> io]

get_trade(fs, trade_id) ==
    LET got == TradeManager_get_trade(fs, trade_id)
    IN  IF got.raised # "" THEN InternalServerError
        ELSE IF Truthy(got.value)
        THEN [status |-> 200, message |-> "Trade found", trade_data |-> got.value.o]
        ELSE TradeNotFound

get_all_trades(fs, order) ==
    LET got == TradeManager_get_all_trades(fs, order)
    IN  IF got.raised # "" THEN InternalServerError
        ELSE [status |-> 200, count |-> Len(got.trades), trades |-> got.trades]

\* mutant: the update writes without checking that the trade exists
update_trade_unchecked(fs, trade_id, body, silent_none, t, io) ==
    LET j == get_json(body, silent_none)
        d1 == SetField(j.value.o, "trade_id", trade_id)
        trade_data == SetField(d1, "updated_timestamp", isoformat(t))
        saved == save_trade(fs, trade_data, trade_id, t, io)
        quiet(r) == [resp |-> r, files |-> fs, io |-> "none"]
    IN  IF j.raised # "" THEN quiet(except_json(j.raised))
        ELSE IF ~Truthy(j.value) THEN quiet(NoJsonData)
        ELSE IF j.value.t # "object" THEN quiet(except_json("TypeError"))
        ELSE IF saved.raised # ""
        THEN [resp |-> except_json(saved.raised), files |-> saved.files, io |-> io]
        ELSE [resp |-> [status |-> 200, message |-> "Trade updated successfully",
                        trade_id |-> trade_id, trade_data |-> saved.trade_data],
              files |-> saved.files, io |-> io]

\* mutant: the update keeps a trade_id found in the body
update_trade_keeping_body_id(fs, trade_id, body, silent_none, t, io) ==
    LET existing_trade == TradeManager_get_trade(fs, trade_id)
        j == get_json(body, silent_none)
        d1 == IF "trade_id" \in DOMAIN j.value.o
              THEN j.value.o
              ELSE SetField(j.value.o, "trade_id", trade_id)
        trade_data == SetField(d1, "updated_timestamp", isoformat(t))
        saved == save_trade(fs, trade_data, trade_id, t, io)
        quiet(r) == [resp |-> r, files |-> fs, io |-> "none"]
    IN  IF existing_trade.raised # "" THEN quiet(except_json(existing_trade.raised))
        ELSE IF ~Truthy(existing_trade.value) THEN quiet(TradeNotFound)
        ELSE IF j.raised # "" THEN quiet(except_json(j.raised))
        ELSE IF ~Truthy(j.value) THEN quiet(NoJsonData)
        ELSE IF j.value.t # "object" THEN quiet(except_json("TypeError"))
        ELSE IF saved.raised # ""
        THEN [resp |-> except_json(saved.raised), files |-> saved.files, io |-> io]
        ELSE [resp |-> [status |-> 200, message |-> "Trade updated successfully",
                        trade_id |-> trade_id, trade_data |-> saved.trade_data],
              files |-> saved.files, io |-> io]

update_trade(fs, trade_id, body, silent_none, t, io) ==
    LET existing_trade == TradeManager_get_trade(fs, trade_id)
        j == get_json(body, silent_none)
        d1 == SetField(j.value.o, "trade_id", trade_id)
        trade_data == SetField(d1, "updated_timestamp", isoformat(t))
        saved == save_trade(fs, trade_data, trade_id, t, io)
        quiet(r) == [resp |-> r, files |-> fs, io |-> "none"]
    IN  IF existing_trade.raised # "" THEN quiet(except_json(existing_trade.raised))
        ELSE IF ~Truthy(existing_trade.value) THEN quiet(TradeNotFound)
        ELSE IF j.raised # "" THEN quiet(except_json(j.raised))
        ELSE IF ~Truthy(j.value) THEN quiet(NoJsonData)
        ELSE IF j.value.t # "object" THEN quiet(except_json("TypeError"))
        ELSE IF saved.raised # ""
        THEN [resp |-> except_json(saved.raised), files |-> saved.files, io |-> io]
        ELSE [resp |-> [status |-> 200, message |-> "Trade updated successfully",
                        trade_id |-> trade_id, trade_data |-> saved.trade_data],
              files |-> saved.files, io |-> io]

\* The outcome of os.remove: the file goes, or the call raises (no permission, file
\* in use) and the file stays.
RemoveOutcomes == {"ok", "remove_fails"}

\* mutant: the delete answers 200 and leaves the file where it is
delete_trade_keeping_file(fs, trade_id, io) ==
    IF exists(fs, trade_id)
    THEN IF io = "remove_fails"
         THEN [resp |-> InternalServerError, files |-> fs, io |-> io]
         ELSE [resp |-> [status |-> 200, message |-> "Trade deleted successfully",
                         trade_id |-> trade_id],
               files |-> fs, io |-> io]
    ELSE [resp |-> TradeNotFound, files |-> fs, io |-> "none"]

\* mutant: the delete removes every file of the directory
delete_trade_clearing_directory(fs, trade_id, io) ==
    IF exists(fs, trade_id)
    THEN IF io = "remove_fails"
         THEN [resp |-> InternalServerError, files |-> fs, io |-> io]
         ELSE [resp |-> [status |-> 200, message |-> "Trade deleted successfully",
                         trade_id |-> trade_id],
               files |-> EmptyDir, io |-> io]
    ELSE [resp |-> TradeNotFound, files |-> fs, io |-> "none"]

delete_trade(fs, trade_id, io) ==
    IF exists(fs, trade_id)
    THEN IF io = "remove_fails"
         THEN [resp |-> InternalServerError, files |-> fs, io |-> io]
         ELSE [resp |-> [status |-> 200, message |-> "Trade deleted successfully",
                         trade_id |-> trade_id],
               files |-> [fs EXCEPT ![trade_id] = NoFile], io |-> io]
    ELSE [resp |-> TradeNotFound, files |-> fs, io |-> "none"]

health_check(t) ==
    [status |-> 200, message |-> "Transaction Management API is running",
     timestamp |-> isoformat(t)]

(***************************************************************************)
(* The requests clients send                                               *)
(***************************************************************************)
\* the sample trade of the tests and the update test_update_trade sends
SampleTrade == [symbol |-> "AAPL", quantity |-> 100, price |-> 150, side |-> "BUY"]
UpdateData == [quantity |-> 200, price |-> 155]
\* a timestamp string a client writes into a body itself
ClientTime == "2024-01-01T00:00:00"

RequiredSet == {required_fields[i] : i \in 1..Len(required_fields)}

\* values that parse but are not objects: a falsy one and a truthy one
NonObjects == {JArray(<<>>), JArray(<<"x">>)}

\* the ids a client can name in a body: those it was handed
BodyIds == issued
\* the ids a client can name in a path: any string of the identifier format
PathIds == UUIDs

CreateObjects ==
    {Restrict(SampleTrade, S) : S \in SUBSET RequiredSet}
      \cup {SetField(SampleTrade, "trade_id", i) : i \in BodyIds}
      \cup {SetField(SampleTrade, "timestamp", ClientTime)}

UpdateObjects ==
    {Restrict(UpdateData, {}), UpdateData,
     SetField(UpdateData, "timestamp", ClientTime),
     SetField(UpdateData, "updated_timestamp", ClientTime)}
      \cup {SetField(UpdateData, "trade_id", i) : i \in BodyIds}

\* the sides Config names as valid, and the trade test_invalid_trade_creation sends
VALID_SIDES == {"BUY", "SELL"}
InvalidTrade == [symbol |-> "AAPL", quantity |-> -100, price |-> 150, side |-> "INVALID"]

\* other objects with the four required fields: a trade_id that is not a string, an
\* updated_timestamp written by the client, a side and a quantity that are not valid
ExtraObjects ==
    {SetField(SampleTrade, "trade_id", JsonTrue),
     SetField(SampleTrade, "updated_timestamp", ClientTime),
     InvalidTrade}

Bodies(objects) ==
    {NoBody, Malformed} \cup {Json(v) : v \in NonObjects} \cup {Json(JObject(o)) : o \in objects}

\* uuid.uuid4(): an identifier never returned before ("" once the pool is used up,
\* which only requests that draw no uuid can then go through with)
uuid4 == IF Cardinality(issued) < NumUUIDs THEN UUIDPool[Cardinality(issued) + 1] ELSE ""

\* the environment's part in a request: does get_json see a missing body as None,
\* and how does the write end, where the handler gets that far
SilentNone(body) == IF body = NoBody THEN BOOLEAN ELSE {TRUE}
Outcomes(writes) == IF writes THEN WriteOutcomes ELSE {"ok"}

(***************************************************************************)
(* History                                                                 *)
(***************************************************************************)
\* the trade_id of every Create answered 201 so far
CreatedAfter(r) ==
    IF r.resp.status = 201 THEN created \cup {r.resp.trade_id} ELSE created

\* the ids deleted with 200, with no Create request since
DeletedAfter(r, trade_id) ==
    IF r.resp.status = 200 THEN deleted \cup {trade_id} ELSE deleted

(***************************************************************************)
(* The state machine: one action per route, and the clock                  *)
(***************************************************************************)
NoRequest == [op |-> "none"]
NoResponse == [status |-> 0]
\* requests are handled one at a time: the server takes one when it has answered the last
Idle == req = NoRequest

\* the API before its first request
ApiAtStart ==
    /\ files = EmptyDir
    /\ now = 0
    /\ issued = {}
    /\ req = NoRequest
    /\ resp = NoResponse
    /\ created = {}
    /\ deleted = {}
    /\ net = 0

\* the deployment receiver before its first request
HookAtStart ==
    /\ hreq = NoRequest
    /\ hresp = NoResponse
    /\ started = 0

\* the threads of the server, none of them busy
Threads == {1, 2}
NoRecord == Restrict(SampleTrade, {})
IdleThread == [op |-> "none", pc |-> "idle", resp |-> NoResponse, record |-> NoRecord]
RaceAtStart == threads = [t \in Threads |-> IdleThread]

\* NgrokManager.__init__: no tunnel held; nothing connected
NoTunnel == 0
NoUrl == "None"
NoCall == [op |-> "none", raised |-> "", disconnect |-> "none", returned |-> "None"]
NgrokAtStart ==
    /\ tunnel = NoTunnel
    /\ tunnel_url = NoUrl
    /\ connected = {}
    /\ nopened = 0
    /\ ncall = NoCall

Init ==
    /\ ApiAtStart
    /\ HookAtStart
    /\ script = TRUE
    /\ port_env = [set |-> FALSE]
    /\ pc = "start"
    /\ exit_status = -1
    /\ launched = FALSE
    /\ RaceAtStart
    /\ NgrokAtStart

Health ==
    /\ Idle
    /\ req' = [op |-> "HEALTH"]
    /\ resp' = health_check(now)
    /\ UNCHANGED <<files, now, issued, created, deleted>>

CreateWith(objects) ==
    /\ Idle
    /\ \E body \in Bodies(objects) :
      \E silent_none \in SilentNone(body) :
        \E io \in Outcomes(create_trade(files, body, silent_none, uuid4, now, "ok").io # "none") :
            LET r == create_trade(files, body, silent_none, uuid4, now, io)
            IN  /\ r.uuid_used => uuid4 # ""
                /\ req' = [op |-> "POST", body |-> body, io |-> r.io]
                /\ resp' = r.resp
                /\ files' = r.files
                /\ issued' = IF r.uuid_used THEN issued \cup {uuid4} ELSE issued
                /\ created' = CreatedAfter(r)
                /\ deleted' = {}
                /\ UNCHANGED now

Create == CreateWith(CreateObjects)

\* a Create whose body may be any object that has the required fields
CreateAny == CreateWith(CreateObjects \cup ExtraObjects)

GetOne ==
    /\ Idle
    /\ \E trade_id \in PathIds :
        /\ req' = [op |-> "GET", id |-> trade_id]
        /\ resp' = get_trade(files, trade_id)
        /\ UNCHANGED <<files, now, issued, created, deleted>>

GetAll ==
    /\ Idle
    /\ \E order \in Orders(files) :
        /\ req' = [op |-> "GET_ALL"]
        /\ resp' = get_all_trades(files, order)
        /\ UNCHANGED <<files, now, issued, created, deleted>>

Update ==
    /\ Idle
    /\ \E trade_id \in PathIds, body \in Bodies(UpdateObjects) :
      \E silent_none \in SilentNone(body) :
        \E io \in Outcomes(update_trade(files, trade_id, body, silent_none, now, "ok").io # "none") :
            LET r == update_trade(files, trade_id, body, silent_none, now, io)
            IN  /\ req' = [op |-> "PUT", id |-> trade_id, body |-> body, io |-> r.io]
                /\ resp' = r.resp
                /\ files' = r.files
                /\ UNCHANGED <<now, issued, created, deleted>>

Delete ==
    /\ Idle
    /\ \E trade_id \in PathIds :
      \E io \in IF exists(files, trade_id) THEN RemoveOutcomes ELSE {"ok"} :
        LET r == delete_trade(files, trade_id, io)
        IN  /\ req' = [op |-> "DELETE", id |-> trade_id, io |-> r.io]
            /\ resp' = r.resp
            /\ files' = r.files
            /\ deleted' = DeletedAfter(r, trade_id)
            /\ UNCHANGED <<now, issued, created>>

\* the response goes out and the server waits for the next request
Respond ==
    /\ ~Idle
    /\ req' = NoRequest
    /\ resp' = NoResponse
    /\ UNCHANGED <<files, now, issued, created, deleted>>

\* time passes between two requests
Tick ==
    /\ Idle
    /\ now < MaxClock
    /\ now' = now + 1
    /\ UNCHANGED <<files, issued, req, resp, created, deleted>>

Next ==
    \/ Health /\ UNCHANGED <<net, outside>>
    \/ Create /\ UNCHANGED <<net, outside>>
    \/ GetOne /\ UNCHANGED <<net, outside>>
    \/ GetAll /\ UNCHANGED <<net, outside>>
    \/ Update /\ UNCHANGED <<net, outside>>
    \/ Delete /\ UNCHANGED <<net, outside>>
    \/ Respond /\ UNCHANGED <<net, outside>>
    \/ Tick /\ UNCHANGED <<net, outside>>

Spec == Init /\ [][Next]_vars

\* The same machine, counting the successful Creates and Deletes
Counted ==
    /\ net' = net + (IF req'.op = "POST" /\ resp'.status = 201 THEN 1
                     ELSE IF req'.op = "DELETE" /\ resp'.status = 200 THEN -1
                     ELSE 0)
    /\ net' \in -MaxNet..MaxNet
    /\ UNCHANGED outside

NextCount ==
    \/ Health /\ Counted
    \/ Create /\ Counted
    \/ GetOne /\ Counted
    \/ GetAll /\ Counted
    \/ Update /\ Counted
    \/ Delete /\ Counted
    \/ Respond /\ UNCHANGED <<net, outside>>
    \/ Tick /\ UNCHANGED <<net, outside>>

SpecCount == Init /\ [][NextCount]_vars

\* The same machine, with clients that create trades from any object
NextAny ==
    \/ Health /\ UNCHANGED <<net, outside>>
    \/ CreateAny /\ UNCHANGED <<net, outside>>
    \/ GetOne /\ UNCHANGED <<net, outside>>
    \/ GetAll /\ UNCHANGED <<net, outside>>
    \/ Update /\ UNCHANGED <<net, outside>>
    \/ Delete /\ UNCHANGED <<net, outside>>
    \/ Respond /\ UNCHANGED <<net, outside>>
    \/ Tick /\ UNCHANGED <<net, outside>>

SpecAny == Init /\ [][NextAny]_vars

(***************************************************************************)
(* The deployment receiver (src/webhook-receiver.py)                       *)
(***************************************************************************)
WEBHOOK_SECRET == "30bX0Quc4serAZ23WEo85nEVCSt_KhWX3k53N2m6c1FzNNmF"
\* a key that is not the receiver's
OtherSecret == "not-the-secret"
ALLOWED_REPOS == {"SahilBharodiya/transaction-management-api"}
DeployRefs == {"refs/heads/main", "refs/heads/master"}

\* hmac.new(secret, msg, sha256).hexdigest(): a digest only that key and that message give
hmac_sha256(secret, msg) == [key |-> secret, msg |-> msg]

\* the X-Hub-Signature-256 header: not sent (read as ''), "sha256=" and a digest, or
\* text with a character outside ASCII
NoSignature == [kind |-> "missing"]
NonAscii == [kind |-> "non_ascii"]
Sha256(digest) == [kind |-> "sha256", digest |-> digest]

\* hmac.compare_digest raises TypeError on a str that is not ASCII
verify_github_signature(payload_body, signature_header, secret) ==
    IF signature_header.kind = "missing" THEN [raised |-> "", value |-> FALSE]
    ELSE IF signature_header.kind = "non_ascii" THEN [raised |-> "TypeError", value |-> FALSE]
    ELSE [raised |-> "",
          value |-> (signature_header = Sha256(hmac_sha256(secret, payload_body)))]

\* payload.get('repository', {}).get('full_name', '') and payload.get('ref', '')
full_name(payload) ==
    IF "repository" \in DOMAIN payload /\ "full_name" \in DOMAIN payload["repository"]
    THEN payload["repository"]["full_name"]
    ELSE ""
ref_of(payload) == IF "ref" \in DOMAIN payload THEN payload["ref"] ELSE ""

\* How subprocess.run(cmd, timeout=600) ends: the script exits with 0 or with another
\* code, it is killed at the timeout, or it cannot be started (not executable).
RunOutcomes == {"exit_0", "exit_1", "timeout", "cannot_start"}

HookError == [status |-> 500, status_field |-> "error"]

\* the part of both deployment routes from os.path.exists(DEPLOYMENT_SCRIPT) on
run_script(script_exists, run) ==
    IF ~script_exists
    THEN [resp |-> [status |-> 500, status_field |-> "error",
                    message |-> "Deployment script not found"],
          started |-> 0, run |-> "none"]
    ELSE CASE run = "exit_0" ->
                [resp |-> [status |-> 200, status_field |-> "success"],
                 started |-> 1, run |-> run]
           [] run = "exit_1" ->
                [resp |-> [status |-> 500, status_field |-> "error",
                           message |-> "Deployment failed"],
                 started |-> 1, run |-> run]
           [] run = "timeout" ->
                [resp |-> [status |-> 500, status_field |-> "error",
                           message |-> "Deployment timeout"],
                 started |-> 1, run |-> run]
           [] run = "cannot_start" ->
                [resp |-> HookError, started |-> 0, run |-> run]

\* mutant: a deployment that fails or times out is tried a second time
github_webhook_retrying(body, signature, silent_none, script_exists, run) ==
    LET verified == verify_github_signature(body, signature, WEBHOOK_SECRET)
        j == get_json(body, silent_none)
        payload == j.value
        quiet(r) == [resp |-> r, started |-> 0, run |-> "none"]
    IN  IF verified.raised # "" THEN quiet(HookError)
        ELSE IF ~verified.value THEN quiet([status |-> 401, error |-> "Invalid signature"])
        ELSE IF j.raised # "" THEN quiet(HookError)
        ELSE IF ~Truthy(payload) THEN quiet([status |-> 400, error |-> "No JSON payload"])
        ELSE IF payload.t # "object" THEN quiet(HookError)
        ELSE IF full_name(payload.o) \notin ALLOWED_REPOS
        THEN quiet([status |-> 403, error |-> "Unauthorized repository"])
        ELSE IF ref_of(payload.o) \notin DeployRefs
        THEN quiet([status |-> 200,
                    message |-> "Deployment skipped - not main/master branch"])
        ELSE LET r == run_script(script_exists, run)
             IN  IF r.run \in {"exit_1", "timeout"} THEN [r EXCEPT !.started = 2] ELSE r

github_webhook(body, signature, silent_none, script_exists, run) ==
    LET verified == verify_github_signature(body, signature, WEBHOOK_SECRET)
        j == get_json(body, silent_none)
        payload == j.value
        quiet(r) == [resp |-> r, started |-> 0, run |-> "none"]
    IN  IF verified.raised # "" THEN quiet(HookError)
        ELSE IF ~verified.value THEN quiet([status |-> 401, error |-> "Invalid signature"])
        ELSE IF j.raised # "" THEN quiet(HookError)
        ELSE IF ~Truthy(payload) THEN quiet([status |-> 400, error |-> "No JSON payload"])
        ELSE IF payload.t # "object" THEN quiet(HookError)
        ELSE IF full_name(payload.o) \notin ALLOWED_REPOS
        THEN quiet([status |-> 403, error |-> "Unauthorized repository"])
        ELSE IF ref_of(payload.o) \notin DeployRefs
        THEN quiet([status |-> 200,
                    message |-> "Deployment skipped - not main/master branch"])
        ELSE run_script(script_exists, run)

\* /webhook/manual: `request.get_json() or {}`, then the script
manual_deployment(body, silent_none, script_exists, run) ==
    LET j == get_json(body, silent_none)
        quiet(r) == [resp |-> r, started |-> 0, run |-> "none"]
    IN  IF j.raised # "" THEN quiet(HookError)
        ELSE IF Truthy(j.value) /\ j.value.t # "object" THEN quiet(HookError)
        ELSE run_script(script_exists, run)

\* the receiver's /health
hook_health_check(script_exists) ==
    [status |-> 200, status_field |-> "healthy", script_exists |-> script_exists]

\* the receiver's /status; `docker` tells whether the docker commands could be run
deployment_status(script_exists, docker) ==
    [status |-> 200, deployment_script_exists |-> script_exists,
     docker_running |-> docker, webhook_secret_configured |-> (WEBHOOK_SECRET # "")]

\* the push notifications that arrive
Repositories == ALLOWED_REPOS \cup {"someone/else"}
Refs == DeployRefs \cup {"refs/heads/dev"}
Payloads ==
    {[ref |-> r] : r \in Refs}
      \cup {[repository |-> [full_name |-> n]] : n \in Repositories}
      \cup {[repository |-> [full_name |-> n], ref |-> r] : n \in Repositories, r \in Refs}
HookBodies ==
    {NoBody, Malformed, Json(JObject(<<>>)), Json(JArray(<<"x">>))}
      \cup {Json(JObject(o)) : o \in Payloads}
\* the signatures a sender can put on a body: none, junk, one made with another key,
\* one made with the secret for another body, the right one
Signatures(body) ==
    {NoSignature, NonAscii,
     Sha256(hmac_sha256(OtherSecret, body)),
     Sha256(hmac_sha256(WEBHOOK_SECRET, Malformed)),
     Sha256(hmac_sha256(WEBHOOK_SECRET, body))}
Runs(reached) == IF reached THEN RunOutcomes ELSE {"exit_0"}

HookIdle == hreq = NoRequest

InitHook ==
    /\ ApiAtStart
    /\ HookAtStart
    /\ script \in BOOLEAN
    /\ port_env = [set |-> FALSE]
    /\ pc = "start"
    /\ exit_status = -1
    /\ launched = FALSE
    /\ RaceAtStart
    /\ NgrokAtStart

GithubWebhook ==
    /\ HookIdle
    /\ \E body \in HookBodies :
      \E signature \in Signatures(body), silent_none \in SilentNone(body) :
        \E run \in Runs(github_webhook(body, signature, silent_none, script, "exit_0").run # "none") :
            LET r == github_webhook(body, signature, silent_none, script, run)
            IN  /\ hreq' = [op |-> "WEBHOOK", body |-> body, signature |-> signature,
                            run |-> r.run]
                /\ hresp' = r.resp
                /\ started' = r.started
                /\ UNCHANGED script

ManualDeployment ==
    /\ HookIdle
    /\ \E body \in HookBodies :
      \E silent_none \in SilentNone(body) :
        \E run \in Runs(manual_deployment(body, silent_none, script, "exit_0").run # "none") :
            LET r == manual_deployment(body, silent_none, script, run)
            IN  /\ hreq' = [op |-> "MANUAL", body |-> body, run |-> r.run]
                /\ hresp' = r.resp
                /\ started' = r.started
                /\ UNCHANGED script

HookHealth ==
    /\ HookIdle
    /\ hreq' = [op |-> "HEALTH"]
    /\ hresp' = hook_health_check(script)
    /\ started' = 0
    /\ UNCHANGED script

HookStatus ==
    /\ HookIdle
    /\ \E docker \in BOOLEAN :
        /\ hreq' = [op |-> "STATUS"]
        /\ hresp' = deployment_status(script, docker)
        /\ started' = 0
        /\ UNCHANGED script

\* the response goes out and the receiver waits for the next request
HookRespond ==
    /\ ~HookIdle
    /\ hreq' = NoRequest
    /\ hresp' = NoResponse
    /\ started' = 0
    /\ UNCHANGED script

apivars == <<files, now, issued, req, resp, created, deleted, net>>

NextHook ==
    \/ GithubWebhook /\ UNCHANGED <<apivars, bootvars, racevars, ngrokvars>>
    \/ ManualDeployment /\ UNCHANGED <<apivars, bootvars, racevars, ngrokvars>>
    \/ HookHealth /\ UNCHANGED <<apivars, bootvars, racevars, ngrokvars>>
    \/ HookStatus /\ UNCHANGED <<apivars, bootvars, racevars, ngrokvars>>
    \/ HookRespond /\ UNCHANGED <<apivars, bootvars, racevars, ngrokvars>>

SpecHook == InitHook /\ [][NextHook]_vars

(***************************************************************************)
(* The startup script (src/railway_start.py)                               *)
(***************************************************************************)
\* PORT values are strings of at most MaxPortLen characters
MaxPortLen == 5
\* the characters they are made of: digits enough to write 1, 65535 and 65536, a
\* sign, and a character no number has
PortChars == {"0", "1", "3", "5", "6", "-", "x"}

DigitValue ==
    "0" :> 0 @@ "1" :> 1 @@ "2" :> 2 @@ "3" :> 3 @@ "4" :> 4 @@
    "5" :> 5 @@ "6" :> 6 @@ "7" :> 7 @@ "8" :> 8 @@ "9" :> 9

IsDigits(s) == Len(s) > 0 /\ \A i \in 1..Len(s) : s[i] \in DOMAIN DigitValue

RECURSIVE digits_value(_)
digits_value(s) ==
    IF s = <<>> THEN 0
    ELSE 10 * digits_value(SubSeq(s, 1, Len(s) - 1)) + DigitValue[s[Len(s)]]

\* Python's int(str) on strings of PortChars: digits, or a sign and digits; leading
\* zeros are accepted; anything else raises ValueError
int(s) ==
    IF IsDigits(s) THEN [raised |-> "", value |-> digits_value(s)]
    ELSE IF Len(s) > 1 /\ s[1] = "-" /\ IsDigits(Tail(s))
    THEN [raised |-> "", value |-> 0 - digits_value(Tail(s))]
    ELSE [raised |-> "ValueError", value |-> 0]

\* the environment: PORT is not set, or is set to a string
Unset == [set |-> FALSE]
Set(s) == [set |-> TRUE, val |-> s]
PortEnv ==
    {Unset} \cup {Set(s) : s \in UNION {[1..n -> PortChars] : n \in 0..MaxPortLen}}

\* os.environ.get('PORT', '8000')
environ_get_PORT(env) == IF env.set THEN env.val ELSE <<"8", "0", "0", "0">>

\* mutant: the range check lets port 0 and port 65536 through
main_off_by_one(env) ==
    LET port == environ_get_PORT(env)
        port_int == int(port)
    IN  IF port_int.raised # "" THEN [launch |-> FALSE, exit |-> 1, bind |-> port]
        ELSE IF port_int.value < 0 \/ port_int.value > 65536
        THEN [launch |-> FALSE, exit |-> 1, bind |-> port]
        ELSE [launch |-> TRUE, exit |-> 0, bind |-> port]

\* main() up to subprocess.run: exit with 1, or run gunicorn bound to the port
main(env) ==
    LET port == environ_get_PORT(env)
        port_int == int(port)
    IN  IF port_int.raised # "" THEN [launch |-> FALSE, exit |-> 1, bind |-> port]
        ELSE IF port_int.value < 1 \/ port_int.value > 65535
        THEN [launch |-> FALSE, exit |-> 1, bind |-> port]
        ELSE [launch |-> TRUE, exit |-> 0, bind |-> port]

\* How subprocess.run(cmd, check=True) ends: gunicorn exits with 0 (main returns), it
\* exits with another code (CalledProcessError), the script is interrupted
\* (KeyboardInterrupt), or gunicorn is not installed (FileNotFoundError, uncaught).
GunicornOutcomes == {"exit_0", "failed", "interrupted", "not_found"}
exit_after(outcome) == IF outcome \in {"exit_0", "interrupted"} THEN 0 ELSE 1

NoExit == -1

BootAtStart ==
    /\ pc = "start"
    /\ exit_status = NoExit
    /\ launched = FALSE

Main ==
    /\ pc = "start"
    /\ LET r == main(port_env)
       IN  IF r.launch
           THEN /\ pc' = "gunicorn"
                /\ launched' = TRUE
                /\ UNCHANGED exit_status
           ELSE /\ pc' = "exited"
                /\ exit_status' = r.exit
                /\ UNCHANGED launched
    /\ UNCHANGED port_env

GunicornEnds ==
    /\ pc = "gunicorn"
    /\ \E outcome \in GunicornOutcomes :
        /\ pc' = "exited"
        /\ exit_status' = exit_after(outcome)
    /\ UNCHANGED <<port_env, launched>>

InitBoot ==
    /\ ApiAtStart
    /\ HookAtStart
    /\ script = TRUE
    /\ port_env \in PortEnv
    /\ BootAtStart
    /\ RaceAtStart
    /\ NgrokAtStart

NextBoot ==
    \/ Main /\ UNCHANGED <<apivars, hookvars, racevars, ngrokvars>>
    \/ GunicornEnds /\ UNCHANGED <<apivars, hookvars, racevars, ngrokvars>>

SpecBoot == InitBoot /\ [][NextBoot]_vars

(***************************************************************************)
(* The API under a threaded server: two requests on one trade handled at   *)
(* the same time, each advancing one file-system call at a time.  Get-one  *)
(* and Update first test os.path.exists, then open and load the file;      *)
(* Update then opens the file for writing (which creates or empties it)    *)
(* and dumps the record; Delete tests os.path.exists, then removes.        *)
(***************************************************************************)
\* the trade the requests are about, created before they arrive
RaceId == UUIDPool[1]
StoredBefore == save_trade(EmptyDir, SampleTrade, RaceId, 0, "ok")

\* open(file_path, 'r') + json.load as one call of its own, after the existence test
json_load(fs, trade_id) ==
    CASE fs[trade_id].kind = "absent" -> [raised |-> "FileNotFoundError", value |-> None]
      [] fs[trade_id].kind = "corrupt" -> [raised |-> "JSONDecodeError", value |-> None]
      [] fs[trade_id].kind = "json" -> [raised |-> "", value |-> JObject(fs[trade_id].data)]

\* mutant: the file is opened for writing only if it is there
open_w_existing_only(fs, trade_id) ==
    IF exists(fs, trade_id)
    THEN [raised |-> "", files |-> [fs EXCEPT ![trade_id] = Corrupt]]
    ELSE [raised |-> "FileNotFoundError", files |-> fs]

\* open(file_path, 'w'): the file is created if absent and emptied if present; until
\* the dump is through it holds no complete JSON text
open_w(fs, trade_id) ==
    [raised |-> "", files |-> [fs EXCEPT ![trade_id] = Corrupt]]

\* json.dump and the close of the file.  A file removed while it was open (which
\* POSIX allows) stays removed: the text goes to the unlinked file.
json_dump(fs, trade_id, record) ==
    IF exists(fs, trade_id) THEN [fs EXCEPT ![trade_id] = Unit(record)] ELSE fs

\* mutant: removing a file that is no longer there is not an error
os_remove_ignoring_missing(fs, trade_id, busy_fails) ==
    IF ~exists(fs, trade_id) THEN [raised |-> "", files |-> fs]
    ELSE IF busy_fails THEN [raised |-> "PermissionError", files |-> fs]
    ELSE [raised |-> "", files |-> [fs EXCEPT ![trade_id] = NoFile]]

\* os.remove(file_path).  `busy_fails`: the file is open in a writer and the platform
\* (Windows) refuses to remove an open file.
os_remove(fs, trade_id, busy_fails) ==
    IF ~exists(fs, trade_id) THEN [raised |-> "FileNotFoundError", files |-> fs]
    ELSE IF busy_fails THEN [raised |-> "PermissionError", files |-> fs]
    ELSE [raised |-> "", files |-> [fs EXCEPT ![trade_id] = NoFile]]

\* the record update_trade hands to the store, as save_trade completes it
update_record(trade_id, body, t) ==
    LET d1 == SetField(body, "trade_id", trade_id)
        trade_data == SetField(d1, "updated_timestamp", isoformat(t))
    IN  save_trade(EmptyDir, trade_data, trade_id, t, "ok").trade_data

Done(t, r) == [threads EXCEPT ![t].pc = "done", ![t].resp = r]
At(t, pc_) == [threads EXCEPT ![t].pc = pc_]
\* a writer has the file open
FileOpen == \E w \in Threads : threads[w].pc = "dump"

InitRace ==
    /\ files = StoredBefore.files
    /\ now = MaxClock
    /\ issued = {RaceId}
    /\ req = NoRequest
    /\ resp = NoResponse
    /\ created = {RaceId}
    /\ deleted = {}
    /\ net = 0
    /\ HookAtStart
    /\ script = TRUE
    /\ port_env = [set |-> FALSE]
    /\ pc = "start"
    /\ exit_status = -1
    /\ launched = FALSE
    /\ NgrokAtStart
    /\ RaceAtStart

\* a request arrives and a thread takes it
Begin(t) ==
    /\ threads[t].pc = "idle"
    /\ \E op \in {"GET", "PUT", "DELETE"} :
        threads' = [threads EXCEPT ![t].op = op, ![t].pc = "exists"]
    /\ UNCHANGED files

\* os.path.exists(file_path)
ExistsStep(t) ==
    /\ threads[t].pc = "exists"
    /\ threads' = IF ~exists(files, RaceId) THEN Done(t, TradeNotFound)
                  ELSE IF threads[t].op = "DELETE" THEN At(t, "remove")
                  ELSE At(t, "load")
    /\ UNCHANGED files

\* Get-one answers with what it loaded; Update goes on to its body and the save
LoadStep(t) ==
    /\ threads[t].pc = "load"
    /\ LET got == json_load(files, RaceId)
       IN  threads' =
             IF threads[t].op = "GET"
             THEN Done(t, IF got.raised # "" THEN InternalServerError
                          ELSE [status |-> 200, message |-> "Trade found",
                                trade_data |-> got.value.o])
             ELSE IF got.raised # "" THEN Done(t, except_json(got.raised))
             ELSE [threads EXCEPT ![t].pc = "open",
                                  ![t].record = update_record(RaceId, UpdateData, now)]
    /\ UNCHANGED files

OpenStep(t) ==
    /\ threads[t].pc = "open"
    /\ LET opened == open_w(files, RaceId)
       IN  /\ files' = opened.files
           /\ threads' = IF opened.raised # "" THEN Done(t, except_json(opened.raised))
                         ELSE At(t, "dump")

DumpStep(t) ==
    /\ threads[t].pc = "dump"
    /\ files' = json_dump(files, RaceId, threads[t].record)
    /\ threads' = Done(t, [status |-> 200, message |-> "Trade updated successfully",
                           trade_id |-> RaceId, trade_data |-> threads[t].record])

RemoveStep(t) ==
    /\ threads[t].pc = "remove"
    /\ \E busy_fails \in (IF FileOpen THEN BOOLEAN ELSE {FALSE}) :
        LET removed == os_remove(files, RaceId, busy_fails)
        IN  /\ files' = removed.files
            /\ threads' = IF removed.raised # "" THEN Done(t, InternalServerError)
                          ELSE Done(t, [status |-> 200,
                                        message |-> "Trade deleted successfully",
                                        trade_id |-> RaceId])

racerest == <<now, issued, req, resp, created, deleted, net, hookvars, bootvars, ngrokvars>>

NextRace ==
    \/ \E t \in Threads : Begin(t) /\ UNCHANGED racerest
    \/ \E t \in Threads : ExistsStep(t) /\ UNCHANGED racerest
    \/ \E t \in Threads : LoadStep(t) /\ UNCHANGED racerest
    \/ \E t \in Threads : OpenStep(t) /\ UNCHANGED racerest
    \/ \E t \in Threads : DumpStep(t) /\ UNCHANGED racerest
    \/ \E t \in Threads : RemoveStep(t) /\ UNCHANGED racerest

SpecRace == InitRace /\ [][NextRace]_vars

(***************************************************************************)
(* The tunnel manager (src/ngrok_manager.py)                               *)
(***************************************************************************)
\* how many tunnels ngrok.connect hands out
MaxTunnels == 3

\* tunnel.public_url of the n-th tunnel
public_url(n) == "https://tunnel-" \o ToString(n)

\* How ngrok.disconnect(url) ends: the tunnel is closed; the call raises and the
\* tunnel is closed all the same; the call raises and the tunnel stays connected.
DisconnectOutcomes == {"ok", "raises_closed", "raises_still_connected"}
\* How ngrok.connect(port, ...) ends
ConnectOutcomes == {"ok", "fails"}

\* mutant: without the finally clause, a failed disconnect leaves the fields as they are
stop_tunnel_without_finally(held, url, conn, disconnect) ==
    IF held # NoTunnel
    THEN IF disconnect = "ok"
         THEN [tunnel |-> NoTunnel, tunnel_url |-> NoUrl, connected |-> conn \ {held},
               raised |-> "", disconnect |-> disconnect]
         ELSE [tunnel |-> held, tunnel_url |-> url,
               connected |-> IF disconnect = "raises_still_connected" THEN conn
                             ELSE conn \ {held},
               raised |-> "", disconnect |-> disconnect]
    ELSE [tunnel |-> held, tunnel_url |-> url, connected |-> conn,
          raised |-> "", disconnect |-> "none"]

stop_tunnel(held, url, conn, disconnect) ==
    IF held # NoTunnel
    THEN [tunnel |-> NoTunnel, tunnel_url |-> NoUrl,
          connected |-> IF disconnect = "raises_still_connected" THEN conn
                        ELSE conn \ {held},
          raised |-> "", disconnect |-> disconnect]
    ELSE [tunnel |-> held, tunnel_url |-> url, connected |-> conn,
          raised |-> "", disconnect |-> "none"]

start_tunnel(held, url, conn, n, disconnect, connect) ==
    LET stopped == stop_tunnel(held, url, conn, disconnect)
    IN  IF connect = "fails"
        THEN [stopped EXCEPT !.raised = "PyngrokError"]
        ELSE [tunnel |-> n, tunnel_url |-> public_url(n),
              connected |-> stopped.connected \cup {n},
              raised |-> "", disconnect |-> stopped.disconnect]

get_tunnel_info(held) ==
    IF held = NoTunnel THEN NoUrl ELSE public_url(held)

Disconnects == IF tunnel # NoTunnel THEN DisconnectOutcomes ELSE {"ok"}

InitNgrok ==
    /\ ApiAtStart
    /\ HookAtStart
    /\ script = TRUE
    /\ port_env = [set |-> FALSE]
    /\ pc = "start"
    /\ exit_status = -1
    /\ launched = FALSE
    /\ RaceAtStart
    /\ NgrokAtStart

StartTunnel ==
    \E disconnect \in Disconnects, connect \in ConnectOutcomes :
        LET r == start_tunnel(tunnel, tunnel_url, connected, nopened + 1, disconnect, connect)
        IN  /\ connect = "ok" => nopened < MaxTunnels
            /\ tunnel' = r.tunnel
            /\ tunnel_url' = r.tunnel_url
            /\ connected' = r.connected
            /\ nopened' = IF connect = "ok" THEN nopened + 1 ELSE nopened
            /\ ncall' = [op |-> "start_tunnel", raised |-> r.raised,
                         disconnect |-> r.disconnect, returned |-> r.tunnel_url]

StopTunnel ==
    \E disconnect \in Disconnects :
        LET r == stop_tunnel(tunnel, tunnel_url, connected, disconnect)
        IN  /\ tunnel' = r.tunnel
            /\ tunnel_url' = r.tunnel_url
            /\ connected' = r.connected
            /\ ncall' = [op |-> "stop_tunnel", raised |-> r.raised,
                         disconnect |-> r.disconnect, returned |-> NoUrl]
            /\ UNCHANGED nopened

GetTunnelInfo ==
    /\ ncall' = [op |-> "get_tunnel_info", raised |-> "", disconnect |-> "none",
                 returned |-> get_tunnel_info(tunnel)]
    /\ UNCHANGED <<tunnel, tunnel_url, connected, nopened>>

NextNgrok ==
    \/ StartTunnel /\ UNCHANGED <<apivars, hookvars, bootvars, racevars>>
    \/ StopTunnel /\ UNCHANGED <<apivars, hookvars, bootvars, racevars>>
    \/ GetTunnelInfo /\ UNCHANGED <<apivars, hookvars, bootvars, racevars>>

SpecNgrok == InitNgrok /\ [][NextNgrok]_vars

(***************************************************************************)
(* Properties                                                              *)
(***************************************************************************)
IsObject(body) == body.kind = "json" /\ body.val.t = "object"
HasRequired(body) == IsObject(body) /\ RequiredSet \subseteq DOMAIN body.val.o
\* the required fields a body leaves out, in the order of required_fields
Absent(body) == SelectSeq(required_fields, LAMBDA f : f \notin DOMAIN body.val.o)

\* C1: every Create whose object body carries symbol, quantity, price and side (and
\* whose write goes through) is answered 201 with a trade_id that no earlier Create
\* returned, and Get-one on that id then returns 200 with a record that has every
\* field of the body with the body's value, plus trade_id and timestamp.
C1_CreateReturnsFreshId ==
    [][(req'.op = "POST" /\ HasRequired(req'.body) /\ req'.io = "ok") =>
          /\ resp'.status = 201
          /\ resp'.trade_id \notin created
          /\ LET got == get_trade(files', resp'.trade_id)
                 input == req'.body.val.o
             IN  /\ got.status = 200
                 /\ DOMAIN input \cup {"trade_id", "timestamp"} \subseteq DOMAIN got.trade_data
                 /\ \A f \in DOMAIN input : got.trade_data[f] = input[f]]_vars

\* C2: every Create whose object body lacks at least one required field (the empty
\* object included) is answered 400 with missing_fields listing exactly the absent
\* required fields, and leaves the persisted records as they were.
C2_MissingFieldsListed ==
    [][(req'.op = "POST" /\ IsObject(req'.body) /\ ~HasRequired(req'.body)) =>
          /\ resp'.status = 400
          /\ "missing_fields" \in DOMAIN resp'
          /\ resp'.missing_fields = Absent(req'.body)
          /\ files' = files]_vars

\* C3: after an Update answered 200, Get-one on the id returns exactly the update
\* body plus the forced trade_id and updated_timestamp: no other field, and so no
\* field the earlier body had and the update body omits.
C3_UpdateIsFullReplacement ==
    (req.op = "PUT" /\ resp.status = 200) =>
        LET got == get_trade(files, req.id)
            body2 == req.body.val.o
        IN  /\ got.status = 200
            /\ DOMAIN got.trade_data = DOMAIN body2 \cup {"trade_id", "updated_timestamp"}
            /\ got.trade_data["trade_id"] = req.id
            /\ \A f \in DOMAIN body2 \ {"trade_id", "updated_timestamp"} :
                    got.trade_data[f] = body2[f]

\* C4: no Update makes the store generate a timestamp: after an Update answered
\* 200 the record's timestamp, if it has one, is the one the body carried or the one
\* the record had before.
C4_TimestampNotRegenerated ==
    [][(req'.op = "PUT" /\ resp'.status = 200) =>
          LET after == files'[req'.id].data
              before == files[req'.id].data
              body == req'.body.val.o
          IN  "timestamp" \in DOMAIN after =>
                  IF "timestamp" \in DOMAIN body
                  THEN after["timestamp"] = body["timestamp"]
                  ELSE "timestamp" \in DOMAIN before
                         /\ after["timestamp"] = before["timestamp"]]_vars

\* C5: once Delete(id) was answered 200 and no Create request has come since, every
\* Get-one(id) and every further Delete(id) is answered 404.
C5_DeleteIsPermanent ==
    [][((req'.op = "GET" \/ req'.op = "DELETE") /\ req'.id \in deleted) =>
          resp'.status = 404]_vars

C5_Witness ==
    /\ req.op = "DELETE"
    /\ req.id \in deleted
    /\ resp.status = 404
    /\ listdir(files) # {}

\* C6: Get-all is answered 200 with count = the number of persisted units = the
\* length of trades, and that count is the number of Creates answered 201 minus the
\* number of Deletes answered 200.
C6_CountIsCreatesMinusDeletes ==
    (req.op = "GET_ALL" /\ \A i \in listdir(files) : files[i].kind = "json") =>
        /\ resp.status = 200
        /\ resp.count = Cardinality(listdir(files))
        /\ resp.count = Len(resp.trades)
        /\ resp.count = net

\* C7: an Update on an id with no persisted unit is answered 404 and writes
\* nothing, whatever its body.
C7_UpdateUnknownIdWritesNothing ==
    [][(req'.op = "PUT" /\ ~exists(files, req'.id)) =>
          /\ resp'.status = 404
          /\ files' = files]_vars

C7_Witness ==
    /\ req.op = "PUT"
    /\ IsObject(req.body)
    /\ Truthy(req.body.val)
    /\ resp.status = 404
    /\ ~exists(files, req.id)
    /\ listdir(files) # {}

\* C8: a Create with an unparseable body is answered 400 with an error field, never
\* 500, and persists nothing.
C8_MalformedCreateIs400 ==
    [][(req'.op = "POST" /\ req'.body = Malformed) =>
          /\ resp'.status = 400
          /\ "error" \in DOMAIN resp'
          /\ files' = files]_vars

\* C9: an Update on an existing id is answered 400, the record untouched, when the
\* body is missing, unparseable or not an object, and 200 when the body is any JSON
\* object (and the write goes through).
C9_UpdateBodyValidation ==
    [][(req'.op = "PUT" /\ get_trade(files, req'.id).status = 200) =>
          IF IsObject(req'.body)
          THEN req'.io = "ok" => resp'.status = 200
          ELSE resp'.status = 400 /\ files' = files]_vars

\* C10: Get-one is answered 200 with the record when the id's unit parses, 404
\* when the id has no unit, and 500 when the unit is there but does not parse.
C10_GetOneThreeOutcomes ==
    req.op = "GET" =>
        CASE files[req.id].kind = "json" ->
                resp.status = 200 /\ resp.trade_data = files[req.id].data
          [] files[req.id].kind = "absent" -> resp.status = 404
          [] files[req.id].kind = "corrupt" -> resp.status = 500

C10_Witness ==
    /\ req.op = "GET"
    /\ files[req.id].kind = "corrupt"
    /\ resp.status = 500

\* C11: Get-all is answered 200 whatever the state of the units: trades holds every
\* record whose unit parses, and a unit that does not parse is left out.
C11_GetAllSkipsCorrupt ==
    req.op = "GET_ALL" =>
        LET readable == {i \in listdir(files) : files[i].kind = "json"}
        IN  /\ resp.status = 200
            /\ resp.count = Cardinality(readable)
            /\ {resp.trades[k] : k \in 1..Len(resp.trades)} = {files[i].data : i \in readable}

\* C12: every persisted record has a non-empty trade_id, which is the name of its
\* unit; no two persisted records have the same trade_id.
C12_TradeIdNamesUnit ==
    LET records == {i \in listdir(files) : files[i].kind = "json"}
    IN  /\ \A i \in records :
              /\ "trade_id" \in DOMAIN files[i].data
              /\ files[i].data["trade_id"] # ""
              /\ files[i].data["trade_id"] = i
        /\ \A i, j \in records :
              files[i].data["trade_id"] = files[j].data["trade_id"] => i = j

\* C13: after an Update answered 200 the record under the path id has that id as its
\* trade_id, whatever trade_id the body carried, and no other unit was created or
\* changed (none under the body's trade_id in particular).
C13_UpdateKeepsTradeId ==
    [][(req'.op = "PUT" /\ resp'.status = 200) =>
          /\ files'[req'.id].kind = "json"
          /\ files'[req'.id].data["trade_id"] = req'.id
          /\ \A i \in AllIds \ {req'.id} : files'[i] = files[i]]_vars

C13_Witness ==
    /\ req.op = "PUT"
    /\ resp.status = 200
    /\ "trade_id" \in DOMAIN req.body.val.o
    /\ req.body.val.o["trade_id"] # req.id
    /\ files[req.body.val.o["trade_id"]].kind = "json"
    /\ files[req.id].data["trade_id"] = req.id

\* C14: a record comes to have an updated_timestamp only by an Update answered 200
\* on its id (so it has none until its first update), and every Update answered 200
\* leaves the record with the time of the update there, whatever the body carried.
C14_UpdatedTimestampIffUpdated ==
    [][/\ \A i \in AllIds :
            (files'[i].kind = "json" /\ "updated_timestamp" \in DOMAIN files'[i].data) =>
                \/ files'[i] = files[i]
                \/ req'.op = "PUT" /\ resp'.status = 200 /\ req'.id = i
       /\ (req'.op = "PUT" /\ resp'.status = 200) =>
            /\ files'[req'.id].kind = "json"
            /\ "updated_timestamp" \in DOMAIN files'[req'.id].data
            /\ files'[req'.id].data["updated_timestamp"] = isoformat(now)]_vars

\* the request met a failure of the store: a unit it had to read does not parse, or
\* its write or its removal failed
StoreFailure(fs, r) ==
    \/ r.op = "POST" /\ r.io \in {"open_fails", "dump_fails"}
    \/ r.op = "GET" /\ fs[r.id].kind = "corrupt"
    \/ r.op = "GET_ALL" /\ \E i \in listdir(fs) : fs[i].kind = "corrupt"
    \/ r.op = "PUT" /\ (fs[r.id].kind = "corrupt" \/ r.io \in {"open_fails", "dump_fails"})
    \/ r.op = "DELETE" /\ r.io = "remove_fails"

\* C15: a request that meets a failure of the store is answered 500 with the
\* "Internal server error" envelope, and the failed operation is not tried again:
\* no unit holds a record it did not hold before.
C15_StoreFailureIs500 ==
    [][StoreFailure(files, req') =>
          /\ resp'.status = 500
          /\ resp' = InternalServerError
          /\ \A i \in AllIds : files'[i].kind = "json" => files'[i] = files[i]]_vars

\* C16: a Create whose body has the four required fields, with a side that is not a
\* valid side and a negative quantity, is answered 400 with an error field and
\* persists nothing.
C16_InvalidTradeRejected ==
    [][(/\ req'.op = "POST"
        /\ HasRequired(req'.body)
        /\ req'.body.val.o["side"] \notin VALID_SIDES
        /\ req'.body.val.o["quantity"] < 0) =>
          /\ resp'.status = 400
          /\ "error" \in DOMAIN resp'
          /\ files' = files]_vars

SignatureMatches(r) == r.signature = Sha256(hmac_sha256(WEBHOOK_SECRET, r.body))
PayloadNonEmpty(r) == r.body.kind = "json" /\ Truthy(r.body.val)
RepoAllowed(r) == IsObject(r.body) /\ full_name(r.body.val.o) \in ALLOWED_REPOS
RefDeploys(r) == IsObject(r.body) /\ ref_of(r.body.val.o) \in DeployRefs
PassesAllChecks(r) ==
    SignatureMatches(r) /\ PayloadNonEmpty(r) /\ RepoAllowed(r) /\ RefDeploys(r)

\* C18: /webhook/github starts the deployment script only for a request that passes
\* the signature, payload, repository and ref checks; the first check that fails, in
\* that order, decides the answer (401, 400, 403, 200 "skipped") and nothing is run.
C18_ChecksInOrder ==
    [][hreq'.op = "WEBHOOK" =>
          /\ started' > 0 => PassesAllChecks(hreq')
          /\ ~PassesAllChecks(hreq') =>
                /\ started' = 0
                /\ hresp'.status =
                      IF ~SignatureMatches(hreq') THEN 401
                      ELSE IF ~PayloadNonEmpty(hreq') THEN 400
                      ELSE IF ~RepoAllowed(hreq') THEN 403
                      ELSE 200]_vars

\* C19: a /webhook/github request that passes all checks starts the script at most
\* once; it is answered 200 "success" exactly when the script ran and exited with 0,
\* and 500 when the script exited with another code, timed out or does not exist; a
\* script that does not exist is not started.
C19_OneRunNoRetry ==
    [][(hreq'.op = "WEBHOOK" /\ PassesAllChecks(hreq')) =>
          /\ started' <= 1
          /\ (hresp'.status = 200 /\ hresp'.status_field = "success") <=>
                (script /\ hreq'.run = "exit_0")
          /\ (~script \/ hreq'.run \in {"exit_1", "timeout"}) => hresp'.status = 500
          /\ ~script => started' = 0]_vars

C19_Witness ==
    /\ hreq.op = "WEBHOOK"
    /\ PassesAllChecks(hreq)
    /\ hreq.run = "timeout"
    /\ hresp.status = 500
    /\ started = 1

\* the PORT value is an integer in 1..65535
ValidPort(env) ==
    LET n == int(environ_get_PORT(env))
    IN  n.raised = "" /\ n.value >= 1 /\ n.value <= 65535

\* C20: the startup script runs gunicorn only for a PORT value that parses as an
\* integer in 1..65535; for every other value it exits with status 1 and has run
\* nothing.
C20_LaunchOnlyOnValidPort ==
    /\ launched => ValidPort(port_env)
    /\ (pc # "start" /\ ~ValidPort(port_env)) =>
          /\ pc = "exited"
          /\ exit_status = 1
          /\ ~launched

C20_Witness ==
    /\ port_env = Set(<<"6", "5", "5", "3", "6">>)
    /\ pc = "exited"
    /\ exit_status = 1
    /\ ~launched

\* C21: an Update that has passed its existence check goes on to write: opening the
\* file creates it anew when a Delete has removed it meanwhile, and the Update is
\* answered 200.  So Delete 200, Update 200 and the record present after both is a
\* possible outcome.
C21_UpdateWriteIgnoresDelete ==
    [][\A t \in Threads :
          /\ (threads[t].pc = "open" /\ threads'[t].pc # "open") =>
                threads'[t].pc = "dump" /\ exists(files', RaceId)
          /\ (threads[t].pc = "dump" /\ threads'[t].pc # "dump") =>
                threads'[t].pc = "done" /\ threads'[t].resp.status = 200]_vars

C21_Witness ==
    \E u, d \in Threads :
        /\ threads[u].op = "PUT" /\ threads[u].pc = "done" /\ threads[u].resp.status = 200
        /\ threads[d].op = "DELETE" /\ threads[d].pc = "done" /\ threads[d].resp.status = 200
        /\ files[RaceId] = Unit(threads[u].record)

\* C22: between two requests, with every unit parsing, Get-one on an id is answered
\* 200 exactly when the trades Get-all lists hold a record with that trade_id, and
\* that record is the one Get-one returns.
C22_GetOneAgreesWithGetAll ==
    (Idle /\ \A i \in listdir(files) : files[i].kind = "json") =>
        \A trade_id \in AllIds, order \in Orders(files) :
            LET one == get_trade(files, trade_id)
                all == get_all_trades(files, order)
                listed == {k \in 1..Len(all.trades) : all.trades[k]["trade_id"] = trade_id}
            IN  /\ all.status = 200
                /\ one.status = 200 <=> listed # {}
                /\ \A k \in listed : all.trades[k] = one.trade_data

\* C23: at most one tunnel opened through the manager is connected at any time, and
\* a start_tunnel whose connect fails raises and leaves the manager without a tunnel.
C23_AtMostOneTunnel ==
    /\ Cardinality(connected) <= 1
    /\ (ncall.op = "start_tunnel" /\ ncall.raised # "") =>
          tunnel = NoTunnel /\ tunnel_url = NoUrl

\* C24: stop_tunnel never raises and leaves tunnel and tunnel_url both None, also
\* when the disconnect call raised; after every call tunnel is None exactly when
\* tunnel_url is None.
C24_StopClearsBoth ==
    /\ (tunnel = NoTunnel) <=> (tunnel_url = NoUrl)
    /\ ncall.op = "stop_tunnel" =>
          /\ ncall.raised = ""
          /\ tunnel = NoTunnel
          /\ tunnel_url = NoUrl

C24_Witness ==
    /\ ncall.op = "stop_tunnel"
    /\ ncall.disconnect = "raises_still_connected"
    /\ tunnel = NoTunnel
    /\ tunnel_url = NoUrl
    /\ connected # {}

\* C25: Health, Get-one and Get-all, and every Create, Update or Delete answered
\* 400 or 404, leave every unit of the store as it was.
C25_ReadsAndRejectionsWriteNothing ==
    [][(\/ req'.op \in {"HEALTH", "GET", "GET_ALL"}
        \/ req'.op \in {"POST", "PUT", "DELETE"} /\ resp'.status \in {400, 404})
          => files' = files]_vars

C25_Witness ==
    /\ req.op = "POST"
    /\ resp.status = 400
    /\ listdir(files) # {}

\* C26: a successful Update or Delete of one id leaves every unit stored under
\* another id as it was: there exactly when it was there, with the same contents.
C26_OtherRecordsUntouched ==
    [][(req'.op \in {"PUT", "DELETE"} /\ resp'.status = 200) =>
          \A i \in DOMAIN files : i # req'.id => files'[i] = files[i]]_vars

C26_Witness ==
    /\ req.op = "DELETE"
    /\ resp.status = 200
    /\ \E i \in DOMAIN files : i # req.id /\ exists(files, i)

\* C27: a Create answered 201 adds exactly one unit and leaves every unit that was
\* there before as it was, whatever the body holds.
C27_CreateAddsOneNewRecord ==
    [][(req'.op = "POST" /\ resp'.status = 201) =>
          \E i \in DOMAIN files :
              /\ ~exists(files, i)
              /\ exists(files', i)
              /\ \A k \in DOMAIN files : k # i => files'[k] = files[k]]_vars

C29_GetOneSeesWholeRecord ==
    \A g, u \in Threads :
        (/\ threads[g].op = "GET" /\ threads[g].pc = "done"
         /\ threads[u].op = "PUT") =>
            /\ threads[g].resp.status = 200
            /\ threads[g].resp.trade_data \in
                  {StoredBefore.trade_data, update_record(RaceId, UpdateData, now)}

\* C30: on the deployment receiver the script is started only within a request
\* whose shared-secret signature was verified: no route starts it for a request
\* without a valid signature.
C30_ScriptOnlyAfterSignature ==
    started > 0 => (hreq.op = "WEBHOOK" /\ SignatureMatches(hreq))

====
